---- MODULE Spec2Model ----
(***************************************************************************)
(* Model of tools/generate-usability-review.py: the McpClient class (a     *)
(* JSON-RPC client over the stdio pipes of a child process) and the        *)
(* generate_review coroutine that drives it through a fixed script.        *)
(*                                                                         *)
(* The coroutines are cut at their await points; between two client steps  *)
(* the child process, which runs in parallel, may read requests, write     *)
(* lines, or exit.                                                         *)
(*                                                                         *)
(*   Spec        generate_review, from client construction to the end of   *)
(*               the finally block                                         *)
(*   SpecClient  one McpClient session used by an arbitrary caller         *)
(***************************************************************************)
EXTENDS Integers, Sequences, FiniteSets, TLC

VARIABLES
    process,      \* self.process: "None" or "Process"
    message_id,   \* self.message_id
    child,        \* the child process: "none", "running", "exited", "reaped"
    termSent,     \* SIGTERM has been delivered to the child
    sent,         \* requests accepted by the child's stdin pipe, in order
    consumed,     \* how many of them the child has read
    childLines,   \* lines the child has written to its stdout, in order
    errBlocked,   \* the child is blocked in a write to its full stderr pipe
    nread,        \* how many of them the client has read
    pc,           \* position of the caller
    step,         \* index of generate_review's current call in Script
    exc,          \* exception raised by the last operation / propagating
    ret,          \* value returned by the last send_request
    report,       \* what generate_review has printed to stdout
    ids,          \* history: the id built by each send_request call
    closeCalls    \* history: number of close() invocations

vars == <<process, message_id, child, termSent, sent, consumed, childLines,
          errBlocked, nread, pc, step, exc, ret, report, ids, closeCalls>>

clientVars == <<process, message_id>>
errVars    == <<errBlocked>>
childVars  == <<child, termSent, consumed, childLines, errVars>>

----------------------------------------------------------------------------
(* Bounds of the model *)

\* longest tools list the child returns
MaxTools == 2
\* unsolicited lines the child may write in addition to its answers
MaxExtra == 1
\* send_request invocations made by the arbitrary caller of SpecClient
MaxCalls == 3
\* close invocations made by the arbitrary caller of SpecClient
MaxClose == 2

----------------------------------------------------------------------------
(* Data *)

NoTool == ""

\* the five calls of generate_review, in program order
Script ==
    << [method |-> "initialize", tool |-> NoTool],
       [method |-> "tools/list", tool |-> NoTool],
       [method |-> "tools/call", tool |-> "initialize_workspace"],
       [method |-> "tools/call", tool |-> "get_diagnostics"],
       [method |-> "tools/call", tool |-> "get_symbol_info"] >>

\* the request dict built by send_request
Request(id, call) == [id |-> id, method |-> call.method, tool |-> call.tool]

AllFields == {"name", "description", "inputSchema"}
ToolNames == {"get_diagnostics", "get_symbol_info"}

\* a capability descriptor of a tools/list result: its name and the keys present
Descriptors ==
    [name : ToolNames, fields : {AllFields, AllFields \ {"inputSchema"},
                                 AllFields \ {"description"}}]
    \cup {[name |-> NoTool, fields |-> AllFields \ {"name"}]}

RECURSIVE SeqsUpTo(_, _)
SeqsUpTo(S, n) ==
    IF n = 0 THEN {<<>>}
    ELSE LET shorter == SeqsUpTo(S, n - 1)
         IN  shorter \cup {Append(s, x) : s \in {t \in shorter : Len(t) = n - 1}, x \in S}

ToolSeqs == SeqsUpTo(Descriptors, MaxTools)

\* One line of the child's stdout.
\*   kind "garbage": not JSON
\*   kind "error":   {"id": id, "error": {...}}
\*   kind "result":  {"id": id, "result": R} with R, by res,
\*        "echo"    {"echo": m}
\*        "isError" {"isError": true, ...}   (an unsuccessful tool result)
\*        "tools"   {"tools": [...]}
Line(kind, id, res, m, tools) ==
    [kind |-> kind, id |-> id, res |-> res, m |-> m, tools |-> tools]

Garbage       == Line("garbage", 0, "", "", <<>>)
ErrorLine(id) == Line("error", id, "", "", <<>>)
Echo(id, m)   == Line("result", id, "echo", m, <<>>)
Failed(id)    == Line("result", id, "isError", "", <<>>)
ToolsLine(id, ts) == Line("result", id, "tools", "", ts)
Unsolicited   == Line("result", 0, "echo", "notification", <<>>)

\* b"" returned by readline at end of file, and "no value"
EofLine == Line("eof", 0, "", "", <<>>)
NoValue == Line("none", 0, "", "", <<>>)

\* the lines the child may answer a request with: a well-formed or an
\* ill-formed answer, carrying the request's id or another one
LinesFor(req) ==
    {Garbage, ErrorLine(req.id), Failed(req.id),
     Echo(req.id, req.method), Echo(req.id + 1, req.method)}
    \cup (IF req.method = "tools/list"
          THEN {ToolsLine(req.id, ts) : ts \in ToolSeqs}
          ELSE {})

----------------------------------------------------------------------------
(* The child process and the asyncio subprocess transport around it *)

Exited == child \in {"exited", "reaped"}

NumExtra == Cardinality({i \in DOMAIN childLines : childLines[i] = Unsolicited})

\* the child reads the next request from its stdin and answers with one line
ChildRespond ==
    /\ child = "running"
    /\ ~errBlocked
    /\ consumed < Len(sent)
    /\ \E l \in LinesFor(sent[consumed + 1]) :
          childLines' = Append(childLines, l)
    /\ consumed' = consumed + 1
    /\ UNCHANGED <<clientVars, child, termSent, errVars, sent, nread, pc, step,
                   exc, ret, report, ids, closeCalls>>

\* the child writes a line nobody asked for
ChildExtra ==
    /\ child = "running"
    /\ ~errBlocked
    /\ NumExtra < MaxExtra
    /\ childLines' = Append(childLines, Unsolicited)
    /\ UNCHANGED <<clientVars, child, termSent, errVars, sent, consumed, nread,
                   pc, step, exc, ret, report, ids, closeCalls>>

\* the child exits, by itself or because of a SIGTERM; its pipe ends close
ChildExit ==
    /\ child = "running"
    /\ child' = "exited"
    /\ errBlocked' = FALSE
    /\ UNCHANGED <<clientVars, termSent, sent, consumed, childLines,
                   nread, pc, step, exc, ret, report, ids, closeCalls>>

\* the event loop has seen the exit and the closing of all three pipes:
\* the transport drops its Popen object
TransportFinish ==
    /\ child = "exited"
    /\ child' = "reaped"
    /\ UNCHANGED <<clientVars, termSent, errVars, sent, consumed, childLines,
                   nread, pc, step, exc, ret, report, ids, closeCalls>>

\* the child writes to its stderr, a pipe created by start() that the client
\* never reads.  The pipe and the stream reader in front of it hold a bounded
\* number of bytes: a write that fits leaves the child as it is, a write of
\* more than the room left blocks the child for good.
ChildLog ==
    /\ child = "running"
    /\ ~errBlocked
    /\ errBlocked' \in BOOLEAN
    /\ UNCHANGED <<clientVars, child, termSent, sent, consumed, childLines,
                   nread, pc, step, exc, ret, report, ids, closeCalls>>

ChildStep == ChildRespond \/ ChildExtra \/ ChildLog \/ ChildExit \/ TransportFinish

----------------------------------------------------------------------------
(* McpClient *)

\* __init__, and the process and pipes not yet created
InitState ==
    /\ process = "None"
    /\ message_id = 0
    /\ child = "none"
    /\ termSent = FALSE
    /\ sent = <<>>
    /\ consumed = 0
    /\ childLines = <<>>
    /\ errBlocked = FALSE
    /\ nread = 0
    /\ step = 1
    /\ exc = "None"
    /\ ret = NoValue
    /\ report = <<>>
    /\ ids = <<>>
    /\ closeCalls = 0

\* start(): create_subprocess_exec either returns a Process or raises
StartOutcomes == {"None", "FileNotFoundError"}

start(e) ==
    /\ e \in StartOutcomes
    /\ IF e = "None"
       THEN process' = "Process" /\ child' = "running"
       ELSE UNCHANGED <<process, child>>

\* variant of NextId: the counter is advanced twice per call
NextIdSkip == message_id + 2

\* send_request, line 37: the id of the request being built
NextId == message_id + 1

\* send_request, lines 48-49: how stdin.write and drain can end.  With no
\* process the attribute access fails; a pipe whose reader has gone either
\* reports the lost connection or still takes the bytes.
WriteOutcomes ==
    IF process = "None" THEN {"AttributeError"}
    ELSE IF child = "running" THEN {"None"}
    ELSE {"None", "ConnectionResetError"}

\* variant of send_request_write: the counter is restored when the write fails
send_request_write_rollback(call, e) ==
    /\ e \in WriteOutcomes
    /\ message_id' = IF e = "None" THEN NextId ELSE message_id
    /\ ids' = Append(ids, NextId)
    /\ sent' = IF e = "None" THEN Append(sent, Request(NextId, call)) ELSE sent
    /\ UNCHANGED process

\* send_request up to the await of drain (lines 37-49)
send_request_write(call, e) ==
    /\ e \in WriteOutcomes
    /\ message_id' = NextId
    /\ ids' = Append(ids, NextId)
    /\ sent' = IF e = "None" THEN Append(sent, Request(NextId, call)) ELSE sent
    /\ UNCHANGED process

\* variant of LineReady: the read gives up after a while, as at end of file
LineReadyTimeout == TRUE

\* stdout.readline() returns: a line is buffered, or the stream is at EOF
LineReady == nread < Len(childLines) \/ Exited

readline == IF nread < Len(childLines) THEN childLines[nread + 1] ELSE EofLine

Parseable(line) == line.kind \notin {"eof", "garbage"}

\* variant of json_loads: a response whose id is not the id just sent is rejected
json_loads_checked(line) ==
    IF Parseable(line) /\ line.id = message_id THEN [exc |-> "None", val |-> line]
    ELSE [exc |-> "JSONDecodeError", val |-> NoValue]

\* variant of json_loads: an empty or malformed line gives a default value
json_loads_default(line) ==
    [exc |-> "None", val |-> IF Parseable(line) THEN line ELSE NoValue]

\* json.loads(response_line.decode()): the value, or the exception raised
json_loads(line) ==
    IF Parseable(line) THEN [exc |-> "None", val |-> line]
    ELSE [exc |-> "JSONDecodeError", val |-> NoValue]

\* send_request from the await of readline to its return (lines 52-55)
send_request_read(r) ==
    /\ LineReady
    /\ r = json_loads(readline)
    /\ nread' = IF nread < Len(childLines) THEN nread + 1 ELSE nread
    /\ UNCHANGED <<clientVars, sent, ids>>

\* variant of CloseOutcome: terminate() is called without the test of line 59
CloseOutcomeNoGuard ==
    IF process = "None" THEN "AttributeError"
    ELSE IF child = "reaped" THEN "ProcessLookupError"
    ELSE "wait"

\* close(), lines 59-60: how the call ends or where it waits
\*   "return"  self.process is None
\*   "wait"    terminate() returned, wait() is awaited
\*   "ProcessLookupError"  terminate() on a transport that has dropped its process
CloseOutcome ==
    IF process = "None" THEN "return"
    ELSE IF child = "reaped" THEN "ProcessLookupError"
    ELSE "wait"

close_terminate ==
    /\ closeCalls' = closeCalls + 1
    /\ termSent' = IF CloseOutcome = "wait" /\ child = "running" THEN TRUE ELSE termSent
    /\ UNCHANGED <<clientVars, child>>

\* variant of close_wait: close() returns without awaiting the exit
close_wait_skipped == TRUE

\* close(), line 61: wait() returns once the child has exited
close_wait == Exited

----------------------------------------------------------------------------
(* What generate_review prints to stdout *)

Item(kind, text, n, val) == [kind |-> kind, text |-> text, n |-> n, val |-> val]

Text(t)        == Item("text", t, 0, NoValue)
\* a fenced json.dumps of a response, as returned by send_request
Json(v)        == Item("json", "", 0, v)
\* a fenced json.dumps of the input_data of a tools/call
JsonInput(t)   == Item("input", t, 0, NoValue)
Found(n)       == Item("found", "", n, NoValue)
ToolHead(name) == Item("tool", name, 0, NoValue)
Description(name) == Item("description", name, 0, NoValue)
Schema(name)   == Item("schema", name, 0, NoValue)

Printed(out, e) == [out |-> out, exc |-> e]

\* the title each call's part of the report starts with
SectionTitle ==
    << "## Server Information",
       "## Available Tools",
       "### 1. initialize_workspace",
       "### 2. get_diagnostics",
       "### 3. get_symbol_info" >>

\* lines 98-101: one descriptor; a missing key raises KeyError where it is read
RenderTool(tool) ==
    IF "name" \notin tool.fields THEN Printed(<<>>, "KeyError")
    ELSE IF "description" \notin tool.fields
    THEN Printed(<<ToolHead(tool.name)>>, "KeyError")
    ELSE IF "inputSchema" \notin tool.fields
    THEN Printed(<<ToolHead(tool.name), Description(tool.name),
                   Text("**Parameters:**")>>, "KeyError")
    ELSE Printed(<<ToolHead(tool.name), Description(tool.name),
                   Text("**Parameters:**"), Schema(tool.name)>>, "None")

\* variant of RenderToolList: the loop is left after its first iteration
RenderToolListFirst(ts) ==
    IF ts = <<>> THEN Printed(<<>>, "None") ELSE RenderTool(Head(ts))

\* lines 97-101: the loop over the descriptors stops at the first exception
RECURSIVE RenderToolList(_)
RenderToolList(ts) ==
    IF ts = <<>> THEN Printed(<<>>, "None")
    ELSE LET h == RenderTool(Head(ts))
         IN  IF h.exc # "None" THEN h
             ELSE LET t == RenderToolList(Tail(ts))
                  IN  Printed(h.out \o t.out, t.exc)

\* lines 94-101: the tools list of the response is looked up after the title is printed
RenderTools(v) ==
    IF v.kind # "result" \/ v.res # "tools"
    THEN Printed(<<Text(SectionTitle[2])>>, "KeyError")
    ELSE LET l == RenderToolList(v.tools)
         IN  Printed(<<Text(SectionTitle[2]), Found(Len(v.tools))>> \o l.out, l.exc)

\* variant of RenderResponse: a response without a successful result is
\* rejected instead of printed
RenderResponseChecked(k, v) ==
    IF v.kind = "error" \/ v.res = "isError" THEN Printed(<<>>, "RuntimeError")
    ELSE Printed((IF k = 1 THEN <<Text(SectionTitle[1])>> ELSE <<Text("**Output:**")>>)
                 \o <<Json(v)>>, "None")

\* lines 88-90, 116-117, 128-129, 140-144: a response is dumped as it is
RenderResponse(k, v) ==
    IF k = 1
    THEN Printed(<<Text("# CSharper MCP Server - Usability Review"),
                   Text(SectionTitle[1]), Json(v)>>, "None")
    ELSE Printed(<<Text("**Output:**"), Json(v)>>
                 \o (IF k = 5 THEN <<Text("---"), Text("Review complete!")>> ELSE <<>>),
                 "None")

\* what is printed once call k has returned v
Render(k, v) == IF k = 2 THEN RenderTools(v) ELSE RenderResponse(k, v)

\* lines 104-110, 120-123, 132-135: what is printed before call k is made
Preamble(k) ==
    IF k < 3 THEN <<>>
    ELSE (IF k = 3 THEN <<Text("## Tool Outputs")>> ELSE <<>>)
         \o <<Text(SectionTitle[k]), Text("**Input:**"), JsonInput(Script[k].tool)>>

----------------------------------------------------------------------------
(* generate_review *)

Goto(p, k) == pc' = p /\ step' = k

\* variant of Propagate: the exception leaves generate_review at once
PropagateNoFinally(e) == Goto("done", step) /\ exc' = e

\* variant of Propagate: a failed call is attempted again while ids remain
PropagateRetry(e) ==
    IF message_id < Len(Script) /\ process # "None"
    THEN Goto("write", step) /\ exc' = exc
    ELSE Goto("finally", step) /\ exc' = e

\* try/finally, lines 72 and 146: an exception in the body runs the finally block
Propagate(e) == Goto("finally", step) /\ exc' = e

\* variant of Awaiting: the next call is made without reading the response
NotAwaiting(k) == Goto("write", k + 1)

\* line 52: having written request k, send_request awaits its response
Awaiting(k) == Goto("read", k)

\* after the rendering of call k: the next call, or the end of the try body
Proceed(k) == IF k < Len(Script) THEN Goto("write", k + 1) ELSE Goto("finally", k)

\* line 73
Start ==
    /\ pc = "start"
    /\ \E e \in StartOutcomes :
          /\ start(e)
          /\ IF e = "None" THEN Goto("sleep", step) /\ exc' = exc ELSE Propagate(e)
    /\ UNCHANGED <<message_id, termSent, errVars, sent, consumed, childLines,
                   nread, ret, report, ids, closeCalls>>

\* line 76
Sleep ==
    /\ pc = "sleep"
    /\ Goto("write", 1)
    /\ UNCHANGED <<clientVars, childVars, sent, nread, exc, ret, report, ids,
                   closeCalls>>

\* the prints before call `step`, and send_request up to the await of drain
Send ==
    /\ pc = "write"
    /\ step \in 1..Len(Script)
    /\ report' = report \o Preamble(step)
    /\ \E e \in WriteOutcomes :
          /\ send_request_write(Script[step], e)
          /\ IF e = "None" THEN Awaiting(step) /\ exc' = exc ELSE Propagate(e)
    /\ UNCHANGED <<childVars, nread, ret, closeCalls>>

\* send_request from readline to its return, and the prints after the call
Receive ==
    /\ pc = "read"
    /\ LET r == json_loads(readline)
       IN  /\ send_request_read(r)
           /\ ret' = r.val
           /\ IF r.exc # "None"
              THEN Propagate(r.exc) /\ report' = report
              ELSE LET p == Render(step, r.val)
                   IN  /\ report' = report \o p.out
                       /\ IF p.exc # "None" THEN Propagate(p.exc)
                          ELSE Proceed(step) /\ exc' = exc
    /\ UNCHANGED <<childVars, closeCalls>>

\* line 147 up to the await of wait()
Finally ==
    /\ pc = "finally"
    /\ close_terminate
    /\ IF CloseOutcome = "return" THEN Goto("done", step) /\ exc' = exc
       ELSE IF CloseOutcome = "wait" THEN Goto("close_wait", step) /\ exc' = exc
       ELSE Goto("done", step) /\ exc' = CloseOutcome
    /\ UNCHANGED <<errVars, sent, consumed, childLines, nread, ret, report, ids>>

\* line 147, wait() returns; the pending exception, if any, leaves generate_review
CloseWait ==
    /\ pc = "close_wait"
    /\ close_wait
    /\ Goto("done", step)
    /\ UNCHANGED <<clientVars, childVars, sent, nread, exc, ret, report, ids,
                   closeCalls>>

Init == InitState /\ pc = "start"

Next ==
    \/ Start
    \/ Sleep
    \/ Send
    \/ Receive
    \/ Finally
    \/ CloseWait
    \/ ChildRespond
    \/ ChildExtra
    \/ ChildLog
    \/ ChildExit
    \/ TransportFinish

Spec == Init /\ [][Next]_vars

\* the event loop resumes a coroutine whose awaited operation can complete and
\* notices a closed pipe; nothing obliges the child to answer, to exit, or
\* to act on a SIGTERM
Fairness ==
    /\ WF_vars(Start)
    /\ WF_vars(Sleep)
    /\ WF_vars(Send)
    /\ WF_vars(Receive)
    /\ WF_vars(Finally)
    /\ WF_vars(CloseWait)
    /\ WF_vars(TransportFinish)

SpecFair == Spec /\ Fairness

----------------------------------------------------------------------------
(* One McpClient session used by an arbitrary caller: any sequence of       *)
(* start, send_request and close, each awaited before the next is called.  *)
(* exc is the outcome of the last call.                                    *)

\* the calls the caller makes: one without and one with a tool name
CallerCalls == {Script[1], Script[3]}

\* await client.start(), while no process has been started
CallStart ==
    /\ pc = "idle"
    /\ process = "None"
    /\ \E e \in StartOutcomes : start(e) /\ exc' = e
    /\ UNCHANGED <<message_id, termSent, errVars, sent, consumed, childLines,
                   nread, pc, step, ret, report, ids, closeCalls>>

\* await client.send_request(...), up to the await of drain
CallSend ==
    /\ pc = "idle"
    /\ Len(ids) < MaxCalls
    /\ \E call \in CallerCalls, e \in WriteOutcomes :
          /\ send_request_write(call, e)
          /\ exc' = e
          /\ pc' = IF e = "None" THEN "read" ELSE "idle"
    /\ UNCHANGED <<childVars, nread, step, ret, report, closeCalls>>

\* send_request returns or raises
CallReceive ==
    /\ pc = "read"
    /\ LET r == json_loads(readline)
       IN  send_request_read(r) /\ ret' = r.val /\ exc' = r.exc
    /\ pc' = "idle"
    /\ UNCHANGED <<childVars, step, report, closeCalls>>

\* await client.close(), up to the await of wait()
CallClose ==
    /\ pc = "idle"
    /\ closeCalls < MaxClose
    /\ close_terminate
    /\ pc' = IF CloseOutcome = "wait" THEN "close_wait" ELSE "idle"
    /\ exc' = IF CloseOutcome \in {"return", "wait"} THEN "None" ELSE CloseOutcome
    /\ UNCHANGED <<errVars, sent, consumed, childLines, nread, step, ret, report,
                   ids>>

\* close returns
CallCloseWait ==
    /\ pc = "close_wait"
    /\ close_wait
    /\ pc' = "idle"
    /\ UNCHANGED <<clientVars, childVars, sent, nread, step, exc, ret, report,
                   ids, closeCalls>>

InitClient == InitState /\ pc = "idle"

NextClient ==
    \/ CallStart
    \/ CallSend
    \/ CallReceive
    \/ CallClose
    \/ CallCloseWait
    \/ ChildRespond
    \/ ChildExit
    \/ TransportFinish

SpecClient == InitClient /\ [][NextClient]_vars

----------------------------------------------------------------------------
(* Properties *)

Range(f) == {f[i] : i \in DOMAIN f}

\* C1: the n-th send_request call of a session builds the id n, whatever
\* became of the earlier calls, and every request written carries the id of
\* the call that wrote it (so written ids increase).
C1_SequentialIds ==
    /\ \A n \in DOMAIN ids : ids[n] = n
    /\ \A i \in DOMAIN sent :
          /\ sent[i].id \in DOMAIN ids
          /\ i > 1 => sent[i - 1].id < sent[i].id

\* a third call writes id 3 although an earlier call wrote nothing
C1_Witness ==
    /\ Len(ids) >= 3
    /\ Len(sent) < Len(ids)
    /\ \E i \in DOMAIN sent : sent[i].id = 3

\* C2: close() called with no process (start never called, or failed), or
\* called again after an earlier close() terminated the child and it has
\* exited, does not raise and leaves no child running.
C2_CloseIdempotent ==
    [][(/\ closeCalls' = closeCalls + 1
        /\ \/ process = "None"
           \/ closeCalls >= 1 /\ termSent /\ Exited)
       => (exc' = "None" /\ child' # "running")]_vars

\* C3: generate_review never ends without having invoked close(), and never
\* invokes it more than once.
C3_CloseOnce ==
    /\ closeCalls <= 1
    /\ pc = "done" => closeCalls = 1
    /\ pc \in {"start", "sleep", "write", "read", "finally"} => closeCalls = 0

\* the run ended by an exception of a send_request, after one close()
C3_Witness == pc = "done" /\ exc = "JSONDecodeError" /\ closeCalls = 1

\* the exceptions that stand for a malformed or absent response line
ProtocolError == {"JSONDecodeError"}

\* C4: when readline returns the empty line of an end of file, or a line that
\* is not JSON, send_request raises a ProtocolError: nothing is returned and
\* nothing is rendered.
C4_ProtocolError ==
    [][(pc = "read" /\ pc' # "read" /\ ~Parseable(readline))
       => (/\ exc' \in ProtocolError
           /\ ret' = NoValue
           /\ report' = report
           /\ pc' = "finally")]_vars

\* the child exited without writing any line and the first call failed
C4_Witness ==
    /\ pc = "finally"
    /\ exc = "JSONDecodeError"
    /\ Len(sent) = 1
    /\ childLines = <<>>
    /\ Exited

IsSectionTitle(it) == it.kind = "text" /\ it.text \in Range(SectionTitle)

\* the section titles printed, in order
Sections == SelectSeq(report, IsSectionTitle)

\* the child answered every request by the echo line of its id and method
\* and stayed alive until close() signalled it
StubChild ==
    /\ process = "Process"
    /\ termSent
    /\ Len(childLines) = Len(sent)
    /\ \A i \in DOMAIN sent : childLines[i] = Echo(sent[i].id, sent[i].method)

\* C5: against the echoing stub child, generate_review sends all five
\* requests, prints the five sections in script order and ends normally.
C5_StubEndToEnd ==
    (pc = "done" /\ StubChild)
    => (/\ exc = "None"
        /\ Len(sent) = 5
        /\ Sections = [k \in 1..5 |-> Text(SectionTitle[k])])

\* C6: requests written minus lines read is 0 or 1, and request k+1 is in the
\* pipe only if the line answering request k has been read.
C6_OneInFlight ==
    /\ Len(sent) - nread \in {0, 1}
    /\ \A k \in DOMAIN sent : k > 1 => nread >= k - 1

\* the fifth request is in flight, four lines have been read
C6_Witness == pc = "read" /\ Len(sent) = 5 /\ nread = 4

\* C7: the requests written are a prefix of the script with ids 1, 2, ...;
\* hence no request is written twice.
C7_FixedSequence ==
    /\ Len(sent) <= Len(Script)
    /\ \A i \in DOMAIN sent : sent[i] = Request(i, Script[i])

\* the whole script has been written
C7_Witness == pc = "done" /\ Len(sent) = Len(Script)

IsFailure(line) == line.kind = "error" \/ (line.kind = "result" /\ line.res = "isError")

\* the outcomes that do not depend on what a parseable response contains:
\* no exception, or a failure to launch, write, read, parse or terminate
TransportFailures ==
    {"None", "FileNotFoundError", "ConnectionResetError", "JSONDecodeError",
     "ProcessLookupError"}

\* C8: a parseable response to initialize or to a tools/call that carries an
\* error or an unsuccessful result is printed as it is, and generate_review
\* goes on to its next call; in those calls only the tools/list rendering
\* can raise because of what a response contains.
C8_NoBranchOnOutcome ==
    /\ [][(/\ pc = "read"
           /\ step \in {1, 3, 4, 5}
           /\ nread' = nread + 1
           /\ IsFailure(readline))
          => (/\ \E i \in (Len(report) + 1)..Len(report') : report'[i] = Json(readline)
              /\ exc' = "None"
              /\ IF step < Len(Script)
                 THEN pc' = "write" /\ step' = step + 1
                 ELSE pc' = "finally" /\ step' = step)]_vars
    /\ [](exc \notin TransportFailures => step = 2)

\* all four responses were failures and the run still made its five calls
C8_Witness ==
    /\ pc = "done"
    /\ exc = "None"
    /\ Len(sent) = Len(Script)
    /\ {Json(ErrorLine(1)), Json(Failed(3)), Json(ErrorLine(4)), Json(Failed(5))}
          \subseteq Range(report)

HasSchema(tool) == "inputSchema" \in tool.fields

\* C9: a descriptor of the tools/list result without inputSchema is skipped:
\* the other descriptors are rendered and the run goes on to the tool calls.
C9_AbsentShapeSkipped ==
    [][(/\ pc = "read"
        /\ step = 2
        /\ nread' = nread + 1
        /\ readline.kind = "result" /\ readline.res = "tools"
        /\ \A i \in DOMAIN readline.tools :
              {"name", "description"} \subseteq readline.tools[i].fields)
       => (/\ exc' = "None"
           /\ pc' = "write" /\ step' = 3
           /\ report' = report
                 \o <<Text(SectionTitle[2]), Found(Len(readline.tools))>>
                 \o RenderToolList(SelectSeq(readline.tools, HasSchema)).out)]_vars

IsToolHead(it) == it.kind = "tool"

\* the names of the "### Tool:" sections printed, in order
ToolHeads == LET h == SelectSeq(report, IsToolHead) IN [i \in DOMAIN h |-> h[i].text]

CompleteTools(line) ==
    /\ line.kind = "result" /\ line.res = "tools"
    /\ \A i \in DOMAIN line.tools : line.tools[i].fields = AllFields

\* C10: once the tools/list call has read a list of N complete descriptors,
\* the report has exactly N "### Tool:" sections, with the descriptors' names
\* in their order; a tools/call request is written only after that.
C10_ToolSections ==
    /\ (nread >= 2 /\ CompleteTools(childLines[2]))
       => ToolHeads = [i \in DOMAIN childLines[2].tools |-> childLines[2].tools[i].name]
    /\ Len(sent) >= 3 => (nread >= 2 /\ CompleteTools(childLines[2]))
    /\ nread < 2 => ToolHeads = <<>>

\* a run that listed two differently named tools and went through the calls
C10_Witness ==
    /\ pc = "done"
    /\ exc = "None"
    /\ Len(ToolHeads) >= 2
    /\ ToolHeads[1] # ToolHeads[2]

\* C11: once close() has returned (or raised), the child started by the
\* session is not running.
C11_NoChildAfterClose == pc = "done" => child # "running"

\* the run ended after close() signalled a live child and awaited its exit
C11_Witness == pc = "done" /\ termSent /\ Exited

\* C12: close() always returns: once generate_review has entered its finally
\* block, close() completes, also when the child does not act on the SIGTERM.
C12_CloseReturns == (pc = "finally") ~> (pc = "done")

\* the exit status of the script: 0 unless an exception leaves generate_review
ExitCode == IF exc = "None" THEN 0 ELSE 1

\* every send_request call made has read a parseable line, each of them an
\* error object or a well-formed success result
AllAnswered ==
    /\ process = "Process"
    /\ Len(ids) = nread
    /\ \A k \in 1..nread :
          /\ Parseable(childLines[k])
          /\ childLines[k].kind = "error" \/ (k = 2 => CompleteTools(childLines[k]))

\* C13: a run in which every call received a parseable response, error
\* objects included, exits with code 0.
C13_ExitZero == (pc = "done" /\ AllAnswered) => ExitCode = 0

\* C14: when start() fails the run ends with that error, no id was allocated,
\* nothing was written or printed, no child exists, and close() has been
\* called once and has not raised.
C14_LaunchFailure ==
    (process = "None" /\ pc \in {"finally", "done"})
    => (/\ exc = "FileNotFoundError"
        /\ message_id = 0
        /\ sent = <<>>
        /\ report = <<>>
        /\ child = "none"
        /\ pc = "done" => closeCalls = 1)

\* the run ended by the failure of start()
C14_Witness == pc = "done" /\ process = "None" /\ exc = "FileNotFoundError"

IsJson(it) == it.kind = "json"

\* the responses printed, in order
JsonVals == LET j == SelectSeq(report, IsJson) IN [i \in DOMAIN j |-> j[i].val]

\* C15: the k-th line the child wrote is what the k-th call returned and, for
\* the calls whose response is printed (all but tools/list), what is printed
\* for call k, whatever id the line carries; nothing else is printed as a
\* response.
C15_ByPosition ==
    /\ \A k \in 1..nread :
          (k # 2 /\ Parseable(childLines[k]))
          => LET i == IF k = 1 THEN 1 ELSE k - 1
             IN  i <= Len(JsonVals) /\ JsonVals[i] = childLines[k]
    /\ Len(JsonVals) <= nread

\* an unsolicited line was printed as the response of the third call and the
\* answers to the third and fourth requests as those of the fourth and fifth
C15_Witness ==
    /\ pc = "done"
    /\ exc = "None"
    /\ nread = 5
    /\ childLines[3] = Unsolicited
    /\ childLines[4].id = 3
    /\ childLines[5].id = 4
    /\ JsonVals[2] = Unsolicited

\* C16: while the client waits for a response and the running child has
\* written no unread line, the client takes no step: no request is written,
\* nothing is printed, close() is not called, the child is not signalled.
C16_BlockedRead ==
    [][(pc = "read" /\ nread = Len(childLines) /\ child = "running")
       => (/\ pc' = "read"
           /\ UNCHANGED <<process, message_id, sent, nread, step, exc, ret,
                          report, ids, closeCalls, termSent>>)]_vars

\* the third request is written and the child, still running, is silent
C16_Witness ==
    /\ pc = "read"
    /\ step = 3
    /\ child = "running"
    /\ nread = Len(childLines)
    /\ consumed < Len(sent)

\* C17: the client waiting for a response line and the child writing to its
\* stderr pipe are never blocked on each other.
C17_NoPipeDeadlock ==
    ~(pc = "read" /\ nread = Len(childLines) /\ child = "running" /\ errBlocked)

\* C18: the counter equals the number of send_request calls made so far,
\* whatever became of them, and so is at least the number of requests written.
C18_CounterCountsCalls ==
    /\ message_id = Len(ids)
    /\ Len(sent) <= message_id
    /\ nread <= Len(sent)

\* three calls have been made and none has read a response
C18_Witness == pc = "idle" /\ message_id >= 3 /\ nread = 0

\* C19: when the child has exited by itself before the teardown, close() does
\* not raise: the exception pending in the finally block, if any, is the one
\* that leaves generate_review.
C19_TeardownKeepsError ==
    [][(pc = "finally" /\ process = "Process" /\ Exited) => exc' = exc]_vars

====
